---- MODULE Spec2Model ----
(***************************************************************************)
(* unipiSync: one-way sync of the Unifi controller's client table into the *)
(* Pi-hole DNS host list (src/unipiSync.py).                               *)
(*                                                                         *)
(* Strings are sequences of one-character strings, so that lower(),        *)
(* replace(), re.sub() and split() are computed character by character.    *)
(* A line of the Pi-hole host list is the sequence of its whitespace       *)
(* separated tokens, which is what record.split() yields.                  *)
(***************************************************************************)
EXTENDS Integers, Sequences, FiniteSets, TLC

\* ------------------------------------------------------------------ bounds
\* Longest client table the controller returns in one run.
MaxClients == 3
\* Most add_dns_record calls that fail over one behaviour.
MaxFailedCalls == 2

\* ----------------------------------------------------------------- strings
LowerCase ==
    {"a","b","c","d","e","f","g","h","i","j","k","l","m",
     "n","o","p","q","r","s","t","u","v","w","x","y","z"}
Digits == {"0","1","2","3","4","5","6","7","8","9"}
UpperSeq ==
    <<"A","B","C","D","E","F","G","H","I","J","K","L","M",
      "N","O","P","Q","R","S","T","U","V","W","X","Y","Z">>
LowerSeq ==
    <<"a","b","c","d","e","f","g","h","i","j","k","l","m",
      "n","o","p","q","r","s","t","u","v","w","x","y","z">>

\* str.lower() on one character.
Lower(c) ==
    IF \E k \in DOMAIN UpperSeq : UpperSeq[k] = c
    THEN LowerSeq[CHOOSE k \in DOMAIN UpperSeq : UpperSeq[k] = c]
    ELSE c

\* The character class [a-z0-9\-\.] of line 115.
DnsSafe == LowerCase \cup Digits \cup {"-", "."}
\* U+2019, the right single quotation mark, as one character.
RightQuote == "U+2019"
\* The character class of line 114: the ASCII apostrophe and U+2019.
Apostrophes == {"'", RightQuote}

\* hostname.lower().replace(' ', '-') of line 113.
RECURSIVE LowerHyphenate(_)
LowerHyphenate(s) ==
    IF s = <<>> THEN <<>>
    ELSE LET c == Lower(Head(s))
         IN  <<IF c = " " THEN "-" ELSE c>> \o LowerHyphenate(Tail(s))

\* re.sub(cls, '', s): s without the characters of the class drop.
RECURSIVE Remove(_, _)
Remove(drop, s) ==
    IF s = <<>> THEN <<>>
    ELSE (IF Head(s) \in drop THEN <<>> ELSE <<Head(s)>>) \o Remove(drop, Tail(s))

\* re.sub('[^...]', '', s): s with only the characters of the class keep.
RECURSIVE Retain(_, _)
Retain(keep, s) ==
    IF s = <<>> THEN <<>>
    ELSE (IF Head(s) \in keep THEN <<Head(s)>> ELSE <<>>) \o Retain(keep, Tail(s))

\* "--".replace by "-" in one pass from the left, as str.replace does.
RECURSIVE CollapseHyphens(_)
CollapseHyphens(s) ==
    IF Len(s) < 2 THEN s
    ELSE IF s[1] = "-" /\ s[2] = "-"
         THEN <<"-">> \o CollapseHyphens(SubSeq(s, 3, Len(s)))
         ELSE <<s[1]>> \o CollapseHyphens(Tail(s))

\* _sanitize_hostname, had it also replaced '--' by '-'.
_sanitize_hostname_CollapsesHyphens(hostname) ==
    LET clean1 == LowerHyphenate(hostname)
        clean2 == Remove(Apostrophes, clean1)
    IN  CollapseHyphens(Retain(DnsSafe, clean2))

\* UnifiController._sanitize_hostname
_sanitize_hostname(hostname) ==
    LET clean1 == LowerHyphenate(hostname)
        clean2 == Remove(Apostrophes, clean1)
    IN  Retain(DnsSafe, clean2)

\* s.split(sep)[-1]: what follows the last sep, all of s when it has none.
RECURSIVE LastField(_, _)
LastField(s, sep) ==
    IF s = <<>> THEN <<>>
    ELSE IF s[Len(s)] = sep THEN <<>>
    ELSE Append(LastField(SubSeq(s, 1, Len(s) - 1), sep), s[Len(s)])

\* Counter([c['hostname'] for c in client_list])[hostname]
HostnameCount(client_list, hostname) ==
    Cardinality({k \in DOMAIN client_list : client_list[k].hostname = hostname})

\* The name one client gets in _handle_duplicates (lines 124-131).
UniqueHostname(client_list, client) ==
    IF HostnameCount(client_list, client.hostname) > 1
    THEN LET last_octet == LastField(client.ip, ".")
         IN  client.hostname \o <<"-">> \o last_octet
    ELSE client.hostname

\* _handle_duplicates, had the names been counted while renaming (over
\* the entries up to the current one) instead of in a pass of their own.
_handle_duplicates_Incremental(client_list) ==
    [k \in DOMAIN client_list |->
        [ip |-> client_list[k].ip,
         hostname |-> UniqueHostname(SubSeq(client_list, 1, k), client_list[k])]]

\* UnifiController._handle_duplicates
_handle_duplicates(client_list) ==
    [k \in DOMAIN client_list |->
        [ip |-> client_list[k].ip,
         hostname |-> UniqueHostname(client_list, client_list[k])]]

\* str.startswith
StartsWith(s, prefix) ==
    /\ Len(prefix) <= Len(s)
    /\ SubSeq(s, 1, Len(prefix)) = prefix

\* The filter of lines 87-93 on one entry of the controller's table.
Accepted(ip, hostname, allowed_subnets) ==
    /\ ip # <<>>
    /\ hostname # <<>>
    /\ \/ allowed_subnets = <<>>
       \/ \E k \in DOMAIN allowed_subnets : StartsWith(ip, allowed_subnets[k])

\* The loop of lines 82-99: filter, sanitize, keep the order.
RECURSIVE CleanClients(_, _)
CleanClients(table, allowed_subnets) ==
    IF table = <<>> THEN <<>>
    ELSE LET client == Head(table)
             ip == client.ip
             hostname == IF client.hostname # <<>> THEN client.hostname ELSE client.name
             rest == CleanClients(Tail(table), allowed_subnets)
         IN  IF Accepted(ip, hostname, allowed_subnets)
             THEN <<[ip |-> ip, hostname |-> _sanitize_hostname(hostname)]>> \o rest
             ELSE rest

\* ------------------------------------------------------------ the Pi-hole
\* config.dns_domain (DNS_DOMAIN, line 39).
dns_domain == <<"l","a","n">>

\* f"{hostname}.{config.dns_domain}" (lines 196 and 241).
Fqdn(hostname) == hostname \o <<".">> \o dns_domain

\* existing[domain] = ip
DictPut(dict, key, value) ==
    [k \in DOMAIN dict \cup {key} |-> IF k = key THEN value ELSE dict[k]]

\* The loop of lines 180-185 over the host list: lines of fewer than two
\* tokens are skipped, a later line of the same domain overwrites.
RECURSIVE ParseHosts(_)
ParseHosts(records) ==
    IF records = <<>> THEN <<>>
    ELSE LET record == records[Len(records)]
             existing == ParseHosts(SubSeq(records, 1, Len(records) - 1))
         IN  IF Len(record) >= 2
             THEN DictPut(existing, record[2], record[1])
             ELSE existing

\* The lines of records other than those naming domain, in order.
RECURSIVE WithoutDomain(_, _)
WithoutDomain(records, domain) ==
    IF records = <<>> THEN <<>>
    ELSE LET record == Head(records)
             rest == WithoutDomain(Tail(records), domain)
         IN  IF Len(record) >= 2 /\ record[2] = domain THEN rest ELSE <<record>> \o rest

\* PutHost, had the PUT replaced the host list by the one line.
PutHost_ReplacesList(records, ip, fqdn) == << <<ip, fqdn>> >>

\* The host list after the PUT of line 205 is accepted: the line "ip fqdn"
\* is the one line of fqdn (create or overwrite by name).
PutHost(records, ip, fqdn) == Append(WithoutDomain(records, fqdn), <<ip, fqdn>>)

\* --------------------------------------------------------------- the data
Ip_0_1 == <<"1","0",".","0",".","0",".","1">>
Ip_0_2 == <<"1","0",".","0",".","0",".","2">>
Ip_0_5 == <<"1","0",".","0",".","0",".","5">>
Ip_0_7 == <<"1","0",".","0",".","0",".","7">>
Ip_1_5 == <<"1","0",".","0",".","1",".","5">>
Ip_v6 == <<"f","e","8","0",":",":","1">>

\* Entries of the controller's stat/sta table: ip, hostname, name.
Stations ==
    { [ip |-> Ip_0_5, hostname |-> <<"N","A","S">>, name |-> <<>>],
      [ip |-> Ip_1_5, hostname |-> <<>>, name |-> <<"n",RightQuote,"a","s">>],
      [ip |-> Ip_0_7, hostname |-> <<"N","a","s"," ","5">>, name |-> <<"x">>],
      [ip |-> Ip_v6, hostname |-> <<"n","'","a","_","s">>, name |-> <<>>],
      [ip |-> Ip_0_2, hostname |-> <<>>, name |-> <<>>] }

\* The tables the controller may return: each station at most once.
StationTables ==
    UNION { { t \in [1..n -> Stations] : \A a, b \in 1..n : t[a] = t[b] => a = b }
            : n \in 0..MaxClients }

\* ALLOWED_SUBNETS unset, or one prefix (lines 41-42).
SubnetConfigs == { <<>>, << <<"1","0",".","0",".","0",".">> >> }

\* Host lists the Pi-hole may hold when a run starts.
HostLists ==
    { <<>>,
      << <<Ip_0_1, Fqdn(<<"n","a","s">>)>>, <<Ip_0_2, Fqdn(<<"o","l","d">>)>> >>,
      << <<<<"#">>>>, <<Ip_0_5, Fqdn(<<"n","a","s","-","5">>)>>,
         <<Ip_1_5, Fqdn(<<"n","a","s","-","5">>)>> >> }

\* -------------------------------------------------------------- the state
VARIABLES
    raw,              \* a hostname as the controller reports it
    clean,            \* what successive _sanitize_hostname calls made of raw
    table,            \* what the controller's stat/sta returns
    allowed_subnets,  \* config.allowed_subnets
    hosts,            \* the Pi-hole's host list
    dry_run,          \* the dry_run argument of sync_dhcp_to_dns
    pc,               \* where sync_dhcp_to_dns stands
    clients,          \* line 219
    sid,              \* PiholeAPI.sid and csrf_token are set
    existing_records, \* line 232
    idx,              \* position of the loop of line 240 in clients
    added, updated, skipped, failed,
    result,           \* what sync_dhcp_to_dns returned
    puts,             \* the add_dns_record calls of this run, in order
    auth_calls,       \* authenticate calls of this run
    fetch_calls,      \* get_existing_records calls of this run
    fetch_ok,         \* whether the last get_existing_records got the list
    failed_calls,     \* add_dns_record calls that failed so far
    hosts_before,     \* the host list when this run started
    run,              \* "first" or "second" invocation of main
    first             \* how the first run ended, once the second started

vars ==
    <<raw, clean, table, allowed_subnets, hosts, dry_run, pc, clients, sid, existing_records,
      idx, added, updated, skipped, failed, result, puts, auth_calls, fetch_calls,
      fetch_ok, failed_calls, hosts_before, run, first>>

counters == <<added, updated, skipped, failed>>

\* The locals of a run before its first statement.
Fresh ==
    /\ pc = "clients"
    /\ clients = <<>>
    /\ sid = FALSE
    /\ existing_records = <<>>
    /\ idx = 0
    /\ added = 0 /\ updated = 0 /\ skipped = 0 /\ failed = 0
    /\ result = "none"
    /\ puts = <<>>
    /\ auth_calls = 0
    /\ fetch_calls = 0
    /\ fetch_ok = FALSE

NoRun == [pc |-> "none"]

Init ==
    /\ raw = <<>>
    /\ clean = <<>>
    /\ table \in StationTables
    /\ allowed_subnets \in SubnetConfigs
    /\ hosts \in HostLists
    /\ dry_run \in BOOLEAN
    /\ Fresh
    /\ failed_calls = 0
    /\ hosts_before = hosts
    /\ run = "first"
    /\ first = NoRun

\* ---------------------------------------------------------- the operations
\* How a PUT may end: accepted, refused (no effect, an error status), or
\* lost (the request or its answer fails after the Pi-hole applied it).
PutOutcomes == {"ok", "refused", "lost"}

\* PiholeAPI.add_dns_record: the host list it leaves behind.
add_dns_record(records, domain, ip, outcome) ==
    IF outcome \in {"ok", "lost"} THEN PutHost(records, ip, Fqdn(domain)) ELSE records

\* Reconcile without the dry_run tests of lines 248 and 258.
Reconcile_IgnoresDryRun(existing, fqdn, ip, dry, outcome) ==
    IF fqdn \in DOMAIN existing /\ existing[fqdn] = ip
    THEN [count |-> "skipped", put |-> FALSE]
    ELSE [count |-> IF outcome # "ok" THEN "failed"
                    ELSE IF fqdn \in DOMAIN existing THEN "updated" ELSE "added",
          put |-> TRUE]

\* Reconcile, had the dry run tallied every intended change as added.
Reconcile_DryRunTalliesAdded(existing, fqdn, ip, dry, outcome) ==
    IF fqdn \in DOMAIN existing /\ existing[fqdn] = ip
    THEN [count |-> "skipped", put |-> FALSE]
    ELSE IF dry
         THEN [count |-> "added", put |-> FALSE]
         ELSE [count |-> IF outcome # "ok" THEN "failed"
                         ELSE IF fqdn \in DOMAIN existing THEN "updated" ELSE "added",
               put |-> TRUE]

\* Reconcile, had the value add_dns_record returns been ignored.
Reconcile_IgnoresPutResult(existing, fqdn, ip, dry, outcome) ==
    IF fqdn \in DOMAIN existing /\ existing[fqdn] = ip
    THEN [count |-> "skipped", put |-> FALSE]
    ELSE [count |-> IF fqdn \in DOMAIN existing THEN "updated" ELSE "added",
          put |-> ~dry]

\* Reconcile without the comparison of line 245.
Reconcile_NoEqualityTest(existing, fqdn, ip, dry, outcome) ==
    [count |-> IF ~dry /\ outcome # "ok" THEN "failed"
               ELSE IF fqdn \in DOMAIN existing THEN "updated" ELSE "added",
     put |-> ~dry]

\* Reconcile, had line 246 not counted the record.
Reconcile_SkipUncounted(existing, fqdn, ip, dry, outcome) ==
    IF fqdn \in DOMAIN existing /\ existing[fqdn] = ip
    THEN [count |-> "none", put |-> FALSE]
    ELSE [count |-> IF ~dry /\ outcome # "ok" THEN "failed"
                    ELSE IF fqdn \in DOMAIN existing THEN "updated" ELSE "added",
          put |-> ~dry]

\* The body of the loop of line 240 for one client: the counter it
\* increments and whether it calls add_dns_record.
Reconcile(existing, fqdn, ip, dry, outcome) ==
    IF fqdn \in DOMAIN existing
    THEN IF existing[fqdn] = ip
         THEN [count |-> "skipped", put |-> FALSE]
         ELSE IF dry
              THEN [count |-> "updated", put |-> FALSE]
              ELSE IF outcome = "ok"
                   THEN [count |-> "updated", put |-> TRUE]
                   ELSE [count |-> "failed", put |-> TRUE]
    ELSE IF dry
         THEN [count |-> "added", put |-> FALSE]
         ELSE IF outcome = "ok"
              THEN [count |-> "added", put |-> TRUE]
              ELSE [count |-> "failed", put |-> TRUE]

\* get_existing_records, had a failed request still yielded records.
get_existing_records_NoFallback(records, ok) == ParseHosts(records)

\* PiholeAPI.get_existing_records: the parsed list, {} when the request
\* or the decoding of its answer fails (lines 189-191).
get_existing_records(records, ok) == IF ok THEN ParseHosts(records) ELSE <<>>

\* GetActiveClients without the early return of lines 221-223.
GetActiveClients_NoEarlyReturn ==
    /\ pc = "clients"
    /\ \E ok \in BOOLEAN :
         clients' = IF ok
                    THEN _handle_duplicates(CleanClients(table, allowed_subnets))
                    ELSE <<>>
    /\ pc' = "auth"
    /\ UNCHANGED <<raw, clean, table, allowed_subnets, hosts, dry_run, sid, existing_records, idx,
                   counters, result, puts, auth_calls, fetch_calls, fetch_ok,
                   failed_calls, hosts_before, run, first>>

\* Lines 219-223: the client list, and the early return when it is empty.
\* A failed request yields the empty list (lines 107-109).
GetActiveClients ==
    /\ pc = "clients"
    /\ \E ok \in BOOLEAN :
         /\ clients' = IF ok
                       THEN _handle_duplicates(CleanClients(table, allowed_subnets))
                       ELSE <<>>
         /\ IF clients' = <<>>
            THEN pc' = "done" /\ result' = "success"
            ELSE pc' = "auth" /\ result' = result
    /\ UNCHANGED <<raw, clean, table, allowed_subnets, hosts, dry_run, sid, existing_records, idx,
                   counters, puts, auth_calls, fetch_calls, fetch_ok, failed_calls,
                   hosts_before, run, first>>

\* Authenticate, had its result not been tested on line 227.
Authenticate_ResultIgnored ==
    /\ pc = "auth"
    /\ \E ok \in BOOLEAN : sid' = ok
    /\ pc' = "existing"
    /\ auth_calls' = auth_calls + 1
    /\ UNCHANGED <<raw, clean, table, allowed_subnets, hosts, dry_run, clients, existing_records, idx,
                   counters, result, puts, fetch_calls, fetch_ok, failed_calls,
                   hosts_before, run, first>>

\* Lines 226-229: authenticate, abort when it fails.
Authenticate ==
    /\ pc = "auth"
    /\ \E ok \in BOOLEAN :
         /\ sid' = ok
         /\ IF ok
            THEN pc' = "existing" /\ result' = result
            ELSE pc' = "done" /\ result' = "failure"
    /\ auth_calls' = auth_calls + 1
    /\ UNCHANGED <<raw, clean, table, allowed_subnets, hosts, dry_run, clients, existing_records, idx,
                   counters, puts, fetch_calls, fetch_ok, failed_calls, hosts_before,
                   run, first>>

\* Lines 232-238: the current records ({} when the request fails) and the
\* counters of the loop.
GetExistingRecords ==
    /\ pc = "existing"
    /\ \E ok \in BOOLEAN :
         /\ fetch_ok' = ok
         /\ existing_records' = get_existing_records(hosts, ok)
    /\ fetch_calls' = fetch_calls + 1
    /\ added' = 0 /\ updated' = 0 /\ skipped' = 0 /\ failed' = 0
    /\ idx' = 1
    /\ pc' = "sync"
    /\ UNCHANGED <<raw, clean, table, allowed_subnets, hosts, dry_run, clients, sid, result, puts,
                   auth_calls, failed_calls, hosts_before, run, first>>

\* SyncClient, had a failed add_dns_record been tried again.
SyncClient_RetriesFailed ==
    /\ pc = "sync"
    /\ idx <= Len(clients)
    /\ \E outcome \in PutOutcomes :
         LET client == clients[idx]
             fqdn == Fqdn(client.hostname)
             ip == client.ip
             r == Reconcile(existing_records, fqdn, ip, dry_run, outcome)
         IN  /\ ~r.put => outcome = "ok"
             /\ (r.put /\ outcome # "ok") => failed_calls < MaxFailedCalls
             /\ hosts' = IF r.put
                         THEN add_dns_record(hosts, client.hostname, ip, outcome)
                         ELSE hosts
             /\ puts' = IF r.put
                        THEN Append(puts, [idx |-> idx, outcome |-> outcome])
                        ELSE puts
             /\ failed_calls' = IF r.put /\ outcome # "ok"
                                THEN failed_calls + 1
                                ELSE failed_calls
             /\ added' = IF r.count = "added" THEN added + 1 ELSE added
             /\ updated' = IF r.count = "updated" THEN updated + 1 ELSE updated
             /\ skipped' = IF r.count = "skipped" THEN skipped + 1 ELSE skipped
             /\ failed' = IF r.count = "failed" THEN failed + 1 ELSE failed
             /\ idx' = IF r.count = "failed" THEN idx ELSE idx + 1
    /\ UNCHANGED <<raw, clean, table, allowed_subnets, dry_run, pc, clients, sid, existing_records,
                   result, auth_calls, fetch_calls, fetch_ok, hosts_before, run, first>>

\* Lines 240-266: one iteration of the loop.
SyncClient ==
    /\ pc = "sync"
    /\ idx <= Len(clients)
    /\ \E outcome \in PutOutcomes :
         LET client == clients[idx]
             fqdn == Fqdn(client.hostname)
             ip == client.ip
             r == Reconcile(existing_records, fqdn, ip, dry_run, outcome)
         IN  /\ ~r.put => outcome = "ok"
             /\ (r.put /\ outcome # "ok") => failed_calls < MaxFailedCalls
             /\ hosts' = IF r.put
                         THEN add_dns_record(hosts, client.hostname, ip, outcome)
                         ELSE hosts
             /\ puts' = IF r.put
                        THEN Append(puts, [idx |-> idx, outcome |-> outcome])
                        ELSE puts
             /\ failed_calls' = IF r.put /\ outcome # "ok"
                                THEN failed_calls + 1
                                ELSE failed_calls
             /\ added' = IF r.count = "added" THEN added + 1 ELSE added
             /\ updated' = IF r.count = "updated" THEN updated + 1 ELSE updated
             /\ skipped' = IF r.count = "skipped" THEN skipped + 1 ELSE skipped
             /\ failed' = IF r.count = "failed" THEN failed + 1 ELSE failed
    /\ idx' = idx + 1
    /\ UNCHANGED <<raw, clean, table, allowed_subnets, dry_run, pc, clients, sid, existing_records,
                   result, auth_calls, fetch_calls, fetch_ok, hosts_before, run, first>>

\* Summarize, had the function not returned after the loop.
Summarize_NeverReturns ==
    /\ pc = "sync"
    /\ idx > Len(clients)
    /\ UNCHANGED vars

\* Summarize, had line 270 returned True whatever failed.
Summarize_AlwaysSuccess ==
    /\ pc = "sync"
    /\ idx > Len(clients)
    /\ pc' = "done"
    /\ result' = "success"
    /\ UNCHANGED <<raw, clean, table, allowed_subnets, hosts, dry_run, clients, sid, existing_records,
                   idx, counters, puts, auth_calls, fetch_calls, fetch_ok, failed_calls,
                   hosts_before, run, first>>

\* Lines 268-270: the summary and the return value.
Summarize ==
    /\ pc = "sync"
    /\ idx > Len(clients)
    /\ pc' = "done"
    /\ result' = IF failed = 0 THEN "success" ELSE "failure"
    /\ UNCHANGED <<raw, clean, table, allowed_subnets, hosts, dry_run, clients, sid, existing_records,
                   idx, counters, puts, auth_calls, fetch_calls, fetch_ok, failed_calls,
                   hosts_before, run, first>>

\* main (lines 310-317) is started once more, with either --dry-run
\* setting, against the same controller table and the host list as left.
Rerun ==
    /\ pc \in {"done", "cancelled"}
    /\ run = "first"
    /\ run' = "second"
    /\ first' = [pc |-> pc, dry_run |-> dry_run, result |-> result, clients |-> clients,
                 sid |-> sid, idx |-> idx, fetch_ok |-> fetch_ok,
                 added |-> added, updated |-> updated, skipped |-> skipped,
                 failed |-> failed, puts |-> puts,
                 hosts_before |-> hosts_before, hosts |-> hosts]
    /\ dry_run' \in BOOLEAN
    /\ pc' = "clients"
    /\ clients' = <<>>
    /\ sid' = FALSE
    /\ existing_records' = <<>>
    /\ idx' = 0
    /\ added' = 0 /\ updated' = 0 /\ skipped' = 0 /\ failed' = 0
    /\ result' = "none"
    /\ puts' = <<>>
    /\ auth_calls' = 0
    /\ fetch_calls' = 0
    /\ fetch_ok' = FALSE
    /\ hosts_before' = hosts
    /\ UNCHANGED <<raw, clean, table, allowed_subnets, hosts, failed_calls>>

Next ==
    \/ GetActiveClients
    \/ Authenticate
    \/ GetExistingRecords
    \/ SyncClient
    \/ Summarize
    \/ Rerun

Spec == Init /\ [][Next]_vars

\* One invocation of sync_dhcp_to_dns. Every remote call carries
\* timeout=10 and returns or raises, and the loop is over a finite list, so
\* a run that can take a step takes one.
RunNext ==
    \/ GetActiveClients
    \/ Authenticate
    \/ GetExistingRecords
    \/ SyncClient
    \/ Summarize

FairRunSpec == Init /\ [][RunNext]_vars /\ WF_vars(RunNext)

\* KeyboardInterrupt between two steps of a run: main prints and exits
\* with status 130 (lines 323-325), nothing is undone.
Interrupt ==
    /\ pc \in {"clients", "auth", "existing", "sync"}
    /\ pc' = "cancelled"
    /\ result' = "cancelled"
    /\ UNCHANGED <<raw, clean, table, allowed_subnets, hosts, dry_run, clients, sid,
                   existing_records, idx, counters, puts, auth_calls, fetch_calls,
                   fetch_ok, failed_calls, hosts_before, run, first>>

InterruptNext == Next \/ Interrupt

InterruptSpec == Init /\ [][InterruptNext]_vars

\* ---------------------------------------------------------- the sanitizer
\* Longest hostname handed to _sanitize_hostname.
MaxNameLen == 3

\* An upper and a lower case letter, a digit, space, hyphen, dot, the two
\* apostrophes and another symbol.
NameChars == {"A", "b", "7", " ", "-", ".", "'", RightQuote, "_"}

RawNames == UNION { [1..n -> NameChars] : n \in 0..MaxNameLen }

SanitizeInit ==
    /\ raw \in RawNames
    /\ clean = <<>>
    /\ table = <<>>
    /\ allowed_subnets = <<>>
    /\ hosts = <<>>
    /\ dry_run = FALSE
    /\ Fresh
    /\ failed_calls = 0
    /\ hosts_before = <<>>
    /\ run = "first"
    /\ first = NoRun

\* _sanitize_hostname applied to raw, then to its own result.
Sanitize ==
    /\ Len(clean) < 2
    /\ clean' = Append(clean, _sanitize_hostname(IF clean = <<>>
                                                 THEN raw
                                                 ELSE clean[Len(clean)]))
    /\ UNCHANGED <<raw, table, allowed_subnets, hosts, dry_run, pc, clients, sid,
                   existing_records, idx, counters, result, puts, auth_calls,
                   fetch_calls, fetch_ok, failed_calls, hosts_before, run, first>>

SanitizeNext == Sanitize

SanitizeSpec == SanitizeInit /\ [][SanitizeNext]_vars

\* ------------------------------------------------------------- vocabulary
Range(s) == { s[k] : k \in DOMAIN s }

\* The loop of line 240 was entered in this run / the run returned after it.
LoopEntered == pc \in {"sync", "done"} /\ fetch_calls > 0
LoopDone == pc = "done" /\ fetch_calls > 0

\* The line add_dns_record writes for the k-th client.
ClientLine(cl, k) == <<cl[k].ip, Fqdn(cl[k].hostname)>>
DesiredFqdns == { Fqdn(clients[k].hostname) : k \in DOMAIN clients }

\* The k-th client is not already recorded with its address.
NeedsPut(k) ==
    LET fqdn == Fqdn(clients[k].hostname)
    IN  fqdn \notin DOMAIN existing_records \/ existing_records[fqdn] # clients[k].ip

FailedPuts == { j \in DOMAIN puts : puts[j].outcome # "ok" }

\* The final colon- or dot-delimited segment of an address.
LastSegment(ip) == LastField(LastField(ip, "."), ":")

\* The first run was a real run that went through its loop, and this is
\* the end of a second run over the same client list that authenticated
\* and read the host list.
SecondRunAfterRealRun ==
    /\ run = "second"
    /\ LoopDone
    /\ ~first.dry_run
    /\ first.idx > 0
    /\ clients = first.clients
    /\ fetch_ok

\* A dry run went through its loop, and this is the end of a real run over
\* the same client list and the same current records.
RealRunAfterDryRun ==
    /\ run = "second"
    /\ LoopDone
    /\ first.dry_run
    /\ ~dry_run
    /\ first.idx > 0
    /\ clients = first.clients
    /\ fetch_ok = first.fetch_ok

\* ------------------------------------------------------------------ claims
\* C1: after a real run in which every add_dns_record call succeeded, a
\* second run over the same client list against the host list as left
\* skips every record and calls add_dns_record zero times.
C1_SecondRunAllSkipped ==
    (/\ SecondRunAfterRealRun
     /\ \A j \in DOMAIN first.puts : first.puts[j].outcome = "ok")
    => /\ added = 0 /\ updated = 0 /\ failed = 0
       /\ skipped = Len(clients)
       /\ puts = <<>>

\* C2: a dry run never calls add_dns_record and leaves the host list as it
\* found it, at every point of the run.
C2_DryRunWritesNothing == dry_run => (puts = <<>> /\ hosts = hosts_before)

\* A dry run that ended having tallied an addition and an update.
C2_Witness ==
    /\ dry_run
    /\ LoopDone
    /\ added > 0
    /\ updated > 0
    /\ hosts # <<>>

\* C3 as stated: on the same client list and the same current records the
\* four counters of a dry run equal those of a real run.
C3_DryRunCountsEqual ==
    RealRunAfterDryRun
    => /\ first.added = added
       /\ first.updated = updated
       /\ first.skipped = skipped
       /\ first.failed = failed

\* C3 amended: the skipped counts agree, the dry run reports no failure,
\* each record the real run failed is one the dry run tallied as added or
\* updated, and the four counters are equal when no add_dns_record call of
\* the real run fails.
C3_DryRunCountsAmended ==
    RealRunAfterDryRun
    => /\ first.skipped = skipped
       /\ first.failed = 0
       /\ first.added >= added
       /\ first.updated >= updated
       /\ first.added + first.updated = added + updated + failed
       /\ FailedPuts = {} => /\ first.added = added
                             /\ first.updated = updated
                             /\ first.failed = failed

\* A real run after a dry run, no call failing, with additions and updates.
C3_Witness ==
    /\ RealRunAfterDryRun
    /\ FailedPuts = {}
    /\ added > 0
    /\ updated > 0
    /\ skipped > 0

\* C4: when exactly one add_dns_record call of a real run fails, every
\* record that needs an upsert was still attempted once and in order, the
\* others are counted as added or updated and are in the host list (unless
\* a later call of the run wrote the same name), failed is 1 and the run
\* returns failure.
C4_PartialFailureIsolated ==
    (LoopDone /\ ~dry_run /\ Cardinality(FailedPuts) = 1)
    => /\ { puts[j].idx : j \in DOMAIN puts } = { k \in DOMAIN clients : NeedsPut(k) }
       /\ \A j, m \in DOMAIN puts : j < m => puts[j].idx < puts[m].idx
       /\ failed = 1
       /\ added + updated = Len(puts) - 1
       /\ added + updated + skipped + failed = Len(clients)
       /\ result = "failure"
       /\ \A j \in DOMAIN puts :
            (/\ puts[j].outcome = "ok"
             /\ \A m \in DOMAIN puts :
                  (m > j /\ puts[m].outcome # "refused")
                  => ClientLine(clients, puts[m].idx)[2] # ClientLine(clients, puts[j].idx)[2])
            => ClientLine(clients, puts[j].idx) \in Range(hosts)

\* Three upserts were due, the second failed, the other two were applied.
C4_Witness ==
    /\ LoopDone
    /\ ~dry_run
    /\ Len(puts) = 3
    /\ puts[1].outcome = "ok"
    /\ puts[2].outcome = "refused"
    /\ puts[3].outcome = "ok"
    /\ added + updated = 2

\* C5: when authenticate fails the run returns failure without calling
\* get_existing_records or add_dns_record, and the host list is unchanged.
C5_AuthFailureAborts ==
    (auth_calls > 0 /\ ~sid)
    => /\ pc = "done"
       /\ result = "failure"
       /\ fetch_calls = 0
       /\ puts = <<>>
       /\ hosts = hosts_before

\* A real run over clients that all need an upsert, authentication failed.
C5_Witness ==
    /\ auth_calls > 0
    /\ ~sid
    /\ ~dry_run
    /\ hosts = <<>>
    /\ Len(clients) > 1

\* C6: two distinct entries whose last address segments differ never get
\* the same name from _handle_duplicates.
C6_DistinctWhenSegmentsDiffer ==
    \A a, b \in DOMAIN clients :
        (a # b /\ LastSegment(clients[a].ip) # LastSegment(clients[b].ip))
        => clients[a].hostname # clients[b].hostname

\* C7: the names of the client list get_active_clients returns are
\* pairwise distinct.
C7_NamesPairwiseDistinct ==
    \A a, b \in DOMAIN clients : a # b => clients[a].hostname # clients[b].hostname

\* C8: every name of the client list is made of [a-z0-9-.] only, and the
\* suffix of a colliding name is the final colon- or dot-delimited segment
\* of its address.
C8_NamesDnsSafe ==
    clients # <<>>
    => LET client_list == CleanClients(table, allowed_subnets)
       IN  \A k \in DOMAIN clients :
             /\ Range(clients[k].hostname) \subseteq DnsSafe
             /\ HostnameCount(client_list, client_list[k].hostname) > 1
                => clients[k].hostname =
                     client_list[k].hostname \o <<"-">> \o LastSegment(clients[k].ip)

\* C9: when get_existing_records fails the loop runs on no current
\* records: nothing is updated or skipped, a dry run tallies every record
\* as added, a real run calls add_dns_record for every record in order and
\* counts it as added or failed.
C9_FetchFailureDegradesToAdded ==
    (LoopEntered /\ ~fetch_ok)
    => /\ DOMAIN existing_records = {}
       /\ updated = 0
       /\ skipped = 0
       /\ dry_run => (added = idx - 1 /\ puts = <<>>)
       /\ ~dry_run => /\ Len(puts) = idx - 1
                      /\ \A j \in DOMAIN puts : puts[j].idx = j
                      /\ added + failed = idx - 1
                      /\ failed = Cardinality(FailedPuts)

\* The fetch failed on a host list that already holds a client's name,
\* and the real run ended with every record upserted and counted as added.
C9_Witness ==
    /\ LoopDone
    /\ ~fetch_ok
    /\ ~dry_run
    /\ \E k \in DOMAIN clients :
         Fqdn(clients[k].hostname) \in DOMAIN ParseHosts(hosts_before)
    /\ added = Len(clients)
    /\ Len(puts) = Len(clients)

\* C10: a run deletes nothing and writes only the names of its clients:
\* every line of the host list the run found that is not a line of a
\* client's name is still there, and every line that was not there is the
\* line of a client.
C10_OnlyDesiredNamesWritten ==
    /\ \A line \in Range(hosts_before) :
         (Len(line) < 2 \/ line[2] \notin DesiredFqdns) => line \in Range(hosts)
    /\ \A line \in Range(hosts) :
         \/ line \in Range(hosts_before)
         \/ \E k \in DOMAIN clients : line = ClientLine(clients, k)

\* A real run changed the host list and left the line of a name that no
\* client has, and a malformed line, where they were.
C10_Witness ==
    /\ LoopDone
    /\ hosts # hosts_before
    /\ \E line \in Range(hosts_before) :
         /\ Len(line) >= 2
         /\ line[2] \notin DesiredFqdns
         /\ line \in Range(hosts)
    /\ Len(puts) > 1

\* C11: one iteration of the loop on record d: d.fqdn absent from the
\* current records is an upsert counted as added, present with d's address
\* is skipped without a call, present with another address is an upsert
\* counted as updated; a dry run tallies the same without the call, a
\* failed call counts as failed, and an accepted call leaves d in the list.
C11_ReconcileRule ==
    [][(pc = "sync" /\ idx' = idx + 1) =>
        LET fqdn == Fqdn(clients[idx].hostname)
            ip == clients[idx].ip
            present == fqdn \in DOMAIN existing_records
            same == present /\ existing_records[fqdn] = ip
            called == puts' # puts
            accepted == called /\ puts'[Len(puts')].outcome = "ok"
        IN  /\ same => /\ skipped' = skipped + 1
                       /\ puts' = puts
                       /\ hosts' = hosts
                       /\ UNCHANGED <<added, updated, failed>>
            /\ ~same => /\ skipped' = skipped
                        /\ called <=> ~dry_run
                        /\ called => /\ Len(puts') = Len(puts) + 1
                                     /\ puts'[Len(puts')].idx = idx
                        /\ (dry_run \/ accepted) =>
                             /\ failed' = failed
                             /\ added' = IF present THEN added ELSE added + 1
                             /\ updated' = IF present THEN updated + 1 ELSE updated
                        /\ (called /\ ~accepted) =>
                             /\ failed' = failed + 1
                             /\ UNCHANGED <<added, updated>>
                        /\ accepted => /\ fqdn \in DOMAIN ParseHosts(hosts')
                                       /\ ParseHosts(hosts')[fqdn] = ip
                        /\ ~called => hosts' = hosts
    ]_vars

\* A real run that ended with an added, an updated and a skipped record.
C11_Witness ==
    /\ LoopDone
    /\ ~dry_run
    /\ run = "first"
    /\ added > 0
    /\ updated > 0
    /\ skipped > 0

\* C12 as stated: a run returns success exactly when failed is 0.
C12_SuccessIffNoFailure ==
    pc = "done" => (result = "success" <=> failed = 0)

\* C12 amended: a run returns success exactly when failed is 0 and it was
\* not aborted by a failed authenticate; an empty client list or a failed
\* get_existing_records does not change the verdict.
C12_SuccessIffNoFailureNorAuthAbort ==
    pc = "done"
    => /\ result \in {"success", "failure"}
       /\ result = "success" <=> (failed = 0 /\ ~(auth_calls > 0 /\ ~sid))

\* A real run whose fetch of the current records failed on a non-empty
\* host list and that still returned success.
C12_Witness ==
    /\ LoopDone
    /\ ~fetch_ok
    /\ ~dry_run
    /\ hosts_before # <<>>
    /\ failed = 0
    /\ result = "success"

\* C14: a run whose client list is empty returns success without calling
\* authenticate, get_existing_records or add_dns_record, and leaves the
\* host list as it was.
C14_EmptyClientListReturnsSuccess ==
    (pc \notin {"clients"} /\ clients = <<>>)
    => /\ pc = "done"
       /\ result = "success"
       /\ auth_calls = 0
       /\ fetch_calls = 0
       /\ puts = <<>>
       /\ hosts = hosts_before

\* The controller's table has entries, yet the client list came back
\* empty (failed request, or every entry filtered) on a non-empty host list.
C14_Witness ==
    /\ pc = "done"
    /\ clients = <<>>
    /\ table # <<>>
    /\ CleanClients(table, allowed_subnets) # <<>>
    /\ hosts # <<>>
    /\ ~dry_run

\* The phases of a run, in the order of the source.
Phase(p) ==
    CASE p = "clients" -> 1
      [] p = "auth" -> 2
      [] p = "existing" -> 3
      [] p = "sync" -> 4
      [] p = "done" -> 5

\* C16: within a run every step moves to a later phase, except the loop,
\* which stays in its phase and moves to the next client; authenticate and
\* get_existing_records are called at most once, authenticate only after
\* the client list was fetched, get_existing_records only after
\* authenticate succeeded, add_dns_record only in the loop after both, and
\* for the client the loop stands at, so in the order of the client list.
C16_PhasesLinear ==
    [][run' = run =>
        /\ Phase(pc') >= Phase(pc)
        /\ pc' = pc => (pc = "sync" /\ idx' = idx + 1)
        /\ auth_calls' <= 1
        /\ fetch_calls' <= 1
        /\ auth_calls' # auth_calls => (pc = "auth" /\ clients # <<>>)
        /\ fetch_calls' # fetch_calls => (pc = "existing" /\ sid /\ auth_calls = 1)
        /\ clients' # clients => pc = "clients"
        /\ puts' # puts =>
             /\ pc = "sync"
             /\ sid
             /\ auth_calls = 1
             /\ fetch_calls = 1
             /\ Len(puts') = Len(puts) + 1
             /\ SubSeq(puts', 1, Len(puts)) = puts
             /\ puts'[Len(puts')].idx = idx
             /\ \A j \in DOMAIN puts : puts[j].idx < idx
    ]_vars

\* A real run that went through every phase and called add_dns_record for
\* three clients.
C16_Witness ==
    /\ LoopDone
    /\ auth_calls = 1
    /\ fetch_calls = 1
    /\ Len(puts) = 3
    /\ result = "success"

\* C17: add_dns_record is called at most once per entry of the client
\* list; each failed call is counted once in failed, and in a real run the
\* number of calls is added + updated + failed.
C17_NoRetries ==
    /\ \A j, m \in DOMAIN puts : puts[j].idx = puts[m].idx => j = m
    /\ \A j \in DOMAIN puts : puts[j].idx \in DOMAIN clients
    /\ failed = Cardinality(FailedPuts)
    /\ ~dry_run => Len(puts) = added + updated + failed

\* A real run of three calls whose first failed and was not tried again.
C17_Witness ==
    /\ LoopDone
    /\ ~dry_run
    /\ Len(puts) = 3
    /\ puts[1].outcome # "ok"
    /\ failed = 1
    /\ added + updated = 2

\* The add_dns_record call for the k-th client failed.
PutFailed(k) == \E j \in FailedPuts : puts[j].idx = k

\* The k-th client's name is in the current records.
Present(k) == Fqdn(clients[k].hostname) \in DOMAIN existing_records

\* C18: at every point of the loop the four counters add up to the number
\* of records processed, at the return to the length of the client list,
\* and each counter is the number of processed records of its kind, a
\* count over the set of records that does not depend on their order.
C18_OneOutcomePerRecord ==
    LoopEntered
    => LET processed == 1..(idx - 1)
       IN  /\ added + updated + skipped + failed = idx - 1
           /\ pc = "done" => added + updated + skipped + failed = Len(clients)
           /\ skipped = Cardinality({k \in processed : ~NeedsPut(k)})
           /\ failed = Cardinality({k \in processed : PutFailed(k)})
           /\ added = Cardinality({k \in processed :
                          NeedsPut(k) /\ ~Present(k) /\ ~PutFailed(k)})
           /\ updated = Cardinality({k \in processed :
                            NeedsPut(k) /\ Present(k) /\ ~PutFailed(k)})

\* A real run over three records: one skipped, one failed, one applied.
C18_Witness ==
    /\ LoopDone
    /\ ~dry_run
    /\ Len(clients) = 3
    /\ skipped = 1
    /\ failed = 1
    /\ added + updated = 1

\* C20: _handle_duplicates returns as many entries as it was given, the
\* k-th with the k-th address; a name that occurs once in the whole input
\* is kept, a name that occurs more than once gets "-" and the last
\* dot-delimited segment of the entry's address, wherever the entry stands.
C20_DuplicatesKeepShape ==
    clients # <<>>
    => LET input == CleanClients(table, allowed_subnets)
           Occurrences(k) ==
               Cardinality({j \in DOMAIN input : input[j].hostname = input[k].hostname})
       IN  /\ Len(clients) = Len(input)
           /\ \A k \in DOMAIN input :
                /\ clients[k].ip = input[k].ip
                /\ Occurrences(k) = 1 => clients[k].hostname = input[k].hostname
                /\ Occurrences(k) > 1 =>
                     clients[k].hostname =
                       input[k].hostname \o <<"-">> \o LastField(input[k].ip, ".")

\* A client list of three: the first entry's name occurs again later and
\* was renamed, another name occurs once and was kept.
C20_Witness ==
    /\ Len(clients) = 3
    /\ LET input == CleanClients(table, allowed_subnets)
       IN  /\ clients[1].hostname # input[1].hostname
           /\ \E k \in DOMAIN input : clients[k].hostname = input[k].hostname

\* C13 as stated: every run eventually emits the summary of line 268.
C13_AlwaysSummarizes == <>LoopDone

\* C13 amended: every run eventually returns, and a run that enters the
\* loop eventually emits the summary; a run with an empty client list or a
\* failed authenticate returns without it.
C13_RunTerminates ==
    /\ <>(pc = "done")
    /\ (pc = "sync") ~> LoopDone
    /\ [](pc = "done" => (LoopDone <=> (clients # <<>> /\ sid)))

\* A run that returned after its loop, with a failed call on the way.
C13_Witness ==
    /\ LoopDone
    /\ failed > 0
    /\ Len(clients) > 1

\* C15: _sanitize_hostname applied to its own result returns it unchanged.
C15_SanitizeIdempotent ==
    Len(clean) = 2 => clean[2] = clean[1]

\* A name with a capital, an apostrophe and a space went through twice.
C15_Witness ==
    /\ Len(clean) = 2
    /\ raw = <<"A", "'", " ">>
    /\ clean[1] = <<"a", "-">>

\* The host list a real run over cl leaves when it reads the list
\* records, is not interrupted and every add_dns_record call succeeds.
RECURSIVE FullRunHosts(_, _, _)
FullRunHosts(records, existing, cl) ==
    IF cl = <<>> THEN records
    ELSE LET fqdn == Fqdn(cl[1].hostname)
             put == fqdn \notin DOMAIN existing \/ existing[fqdn] # cl[1].ip
         IN  FullRunHosts(IF put THEN PutHost(records, cl[1].ip, fqdn) ELSE records,
                          existing, Tail(cl))

\* The first run was a real run that read the host list and was
\* interrupted in its loop or had calls fail, and this is the end of a
\* second, real run over the same client list that read the host list as
\* left and in which every call succeeded.
RerunAfterPartialRun ==
    /\ run = "second"
    /\ LoopDone
    /\ ~dry_run
    /\ fetch_ok
    /\ FailedPuts = {}
    /\ ~first.dry_run
    /\ first.idx > 0
    /\ first.fetch_ok
    /\ first.clients = clients
    /\ \/ first.pc = "cancelled"
       \/ first.failed > 0

\* C19: after a real run that was interrupted or had upserts fail, a
\* second real run over the same client list in which every upsert
\* succeeds leaves the records that one uninterrupted, fully successful
\* run from the original host list leaves.
C19_RerunReachesSameStore ==
    RerunAfterPartialRun
    => ParseHosts(hosts) =
         ParseHosts(FullRunHosts(first.hosts_before,
                                 ParseHosts(first.hosts_before), clients))

====
